---- MODULE Spec2Model ----
(***************************************************************************)
(* JJY transmitter for Raspberry Pi Pico W (elehobica/pico_jjy_tx).        *)
(*                                                                         *)
(* Specifications over the same variables:                                 *)
(*   SpecEnc  the timecode encoder genTimecode() applied to every time     *)
(*            tuple of a bounded input set;                                *)
(*   Spec     main() of pico_jjy_tx.py: connectWifi, LocalTime, Jjy and    *)
(*            Jjy.run(secToRun) against a millisecond clock, with the      *)
(*            execution delays of the sleeps and of the frame generation   *)
(*            drawn from small sets;                                       *)
(*   SpecLive Jjy and run() from a corrected clock, the program never      *)
(*            stopping while it can step;                                  *)
(*   SpecVec  repeated calls of Jjy.__genTimecode of pico_ntp2jjy.py,      *)
(*            whose frames are list objects of a heap;                     *)
(*   SpecEq   one time tuple encoded by pico_jjy_tx.py, by pico_ntp2jjy.py *)
(*            and sent by main.py.                                         *)
(*                                                                         *)
(* Positions of a frame are the 0-based positions of the Python list;      *)
(* At(v, p) reads position p of the 1-based TLA+ sequence v.               *)
(***************************************************************************)
EXTENDS Integers, Sequences, FiniteSets, TLC

VARIABLES
  pc,            \* position of the program
  now,           \* clock, ms since 00:00:00.000 of the day `base'
  base,          \* the day on which the clock started: year, yearday, weekday
  secToRun,      \* argument of run()
  ticksTimeout,  \* run(): ticksTimeout
  entrySec,      \* alignSecondEdge(): t.second read at entry
  ret,           \* alignSecondEdge(): where it returns to
  t,             \* run(): t, the time tuple handed to genTimecode
  vector,        \* run(): vector, the frame returned by genTimecode
  pos,           \* sendTimecode(): number of values of its argument consumed
  pulseWidth,    \* sendTimecode(): pulseWidth, ms
  ctrl,          \* level of every control pin
  riseAt,        \* observation: clock at the last leading edge
  riseSym,       \* observation: value whose pulse was raised last
  nSent,         \* observation: leading edges since run() began
  iter,          \* observation: iterations of the loop of run() begun
  markSec,       \* observation: clock second of the last leading edge, or of
                 \*   the reading of t when no symbol of the frame was raised
  originSec,     \* observation: clock second of the first leading edge
  loopEntrySec,  \* observation: clock second at which the loop was entered
  frameMissed,   \* observation: second edges that passed without a symbol
                 \*   since the time tuple of the current frame was read
  worst,         \* observation: largest delay added to one symbol's second
  cycleDelay,    \* observation: delay added to the current symbol's second
  late,          \* number of delayed steps taken so far
  wifiUpAt,      \* environment: the poll from which wlan.isconnected() is true
  wifiTry,       \* connectWifi(): polls that found the link down
  fetch,         \* outcome of ntptime.settime(), "none" before it is called
  runAt,         \* observation: clock when run() was entered
  alignEnterAt,  \* observation: clock when alignSecondEdge() was last entered
  alignAt,       \* observation: clock when the first alignSecondEdge() returned
  loopAt,        \* observation: clock when the loop of run() was entered
  slip,          \* observation: second edges that passed without a symbol
                 \*   from the reading of the previous time tuple to that
                 \*   of the current one
  heap,          \* pico_ntp2jjy.py: the list objects created so far
  selfVector,    \* pico_ntp2jjy.py: self.__vector, a reference into heap
  calls,         \* pico_ntp2jjy.py: the calls of __genTimecode made so far
  pulses         \* main.py: the values passed to __sendPulse so far

\* state of main() before Jjy is constructed
bootVars == << wifiUpAt, wifiTry, fetch >>
\* instants observed in run()
obsVars == << runAt, alignEnterAt, alignAt, loopAt, slip >>
\* state of the encoder of pico_ntp2jjy.py and of the sender of main.py
vecVars == << heap, selfVector, calls, pulses >>

vars == << pc, now, base, secToRun, ticksTimeout, entrySec, ret, t, vector,
           pos, pulseWidth, ctrl, riseAt, riseSym, nSent, iter, markSec,
           originSec, loopEntrySec, frameMissed, worst, cycleDelay, late,
           bootVars, obsVars, vecVars >>

----------------------------------------------------------------------------
(* Bounds of the model *)

\* most symbols a behaviour of Spec transmits
MaxSymbols == 70
\* most delayed steps in one behaviour of Spec
MaxLate == 1

\* length of one sleep of the polling loop of alignSecondEdge, ms: the grain
\* at which the model observes the clock while it waits
PollSleep == 100

\* delays (ms) a step may add: the overshoot of a sleep, the time taken by
\* genTimecode and print
Delays == {0, 100, 200, 900}

\* the clock when a corrected LocalTime has been constructed: the day, and
\* the time of day in ms
Starts ==
  { [day |-> [year |-> 2024, yearday |-> 60, weekday |-> 3],
     ms  |-> (3 * 3600 + 4 * 60 + 35) * 1000],
    [day |-> [year |-> 2024, yearday |-> 60, weekday |-> 3],
     ms  |-> (14 * 60 + 55) * 1000 + 300],
    [day |-> [year |-> 2023, yearday |-> 365, weekday |-> 6],
     ms  |-> (23 * 3600 + 59 * 60 + 57) * 1000 + 500],
    [day |-> [year |-> 2023, yearday |-> 365, weekday |-> 6],
     ms  |-> (12 * 3600 + 44 * 60 + 50) * 1000 + 700] }
\* secToRun: 0 runs for ever, 24 s ends within the second frame at the
\* latest, 600000 s exceeds what the tick counter can measure
SecToRunSet == {0, 24, 600000}

\* the polls of connectWifi() from which the link may be up; for t in
\* range(10), line 57, finds it down at every poll when it comes up at 10
WifiPolls == 10
WifiUpSet == {3, WifiPolls}

\* the day the clock shows before any correction
StaleDay == [year |-> 2021, yearday |-> 1, weekday |-> 4]

\* most calls of __genTimecode in one behaviour of SpecVec
MaxCalls == 3

\* input set of SpecEnc
Minutes    == 0..59
Hours      == 0..23
YearDays   == {1, 9, 78, 189, 200, 256, 300, 345, 366}
Years      == {2023, 2089, 2100}
Weekdays   == 0..6

----------------------------------------------------------------------------
(* Python list helpers *)

At(v, p) == v[p + 1]

\* v[a:b]
Slice(v, a, b) == SubSeq(v, a + 1, b)

RECURSIVE sum(_)
sum(v) == IF v = << >> THEN 0 ELSE Head(v) + sum(Tail(v))

RECURSIVE Pow2(_)
Pow2(n) == IF n = 0 THEN 1 ELSE 2 * Pow2(n - 1)

\* (x >> bitPos) & 0b1
Bit(x, bitPos) == (x \div Pow2(bitPos)) % 2

----------------------------------------------------------------------------
(* pico_jjy_tx.py: Jjy.run, the encoder *)

marker_one == << 1 >>
marker == << 2 >>

bcd_lsbFirst(value, numDigits) ==
  [i \in 1..numDigits |-> Bit(value % 10, i - 1)]
bcd(value, numDigits) ==
  [i \in 1..numDigits |-> Bit(value % 10, numDigits - i)]

bin_once(value, count) == << value % 2 >>
\* lines 147-148: the low bit of value, count times
bin(value, count) == [i \in 1..count |-> value % 2]

\* vector[0:30], lines 185-191
Prefix(tt) ==
     marker \o bcd(tt.minute \div 10, 3) \o bin(0, 1) \o bcd(tt.minute, 4) \o marker
  \o bin(0, 2) \o bcd(tt.hour \div 10, 2) \o bin(0, 1) \o bcd(tt.hour, 4) \o marker
  \o bin(0, 2) \o bcd(tt.yearday \div 100, 2) \o bin(0, 1) \o bcd(tt.yearday \div 10, 4) \o marker

pa1_short(v) == sum(Slice(v, 12, 14) \o Slice(v, 15, 18))
\* line 193
pa1(v) == sum(Slice(v, 12, 14) \o Slice(v, 15, 19))
pa2_tensOnly(v) == sum(Slice(v, 1, 4))
\* line 194
pa2(v) == sum(Slice(v, 1, 4) \o Slice(v, 5, 9))

isTimecode1_only15(tt) == ~(tt.minute = 15)
\* line 195: not (t.minute == 15 or t.minute == 45)
isTimecode1(tt) == ~(tt.minute = 15 \/ tt.minute = 45)

Timecode1Tail_wdayMonday0(tt, p1, p2) ==
     bcd(tt.yearday, 4) \o bin(0, 2) \o bin(p1, 1) \o bin(p2, 1) \o bin(0, 1) \o marker
  \o bin(0, 1) \o bcd(tt.year \div 10, 4) \o bcd(tt.year, 4) \o marker
  \o bcd(tt.weekday, 3) \o bin(0, 1) \o bin(0, 1) \o bin(0, 4) \o marker
\* lines 197-201, Timecode1
Timecode1Tail(tt, p1, p2) ==
     bcd(tt.yearday, 4) \o bin(0, 2) \o bin(p1, 1) \o bin(p2, 1) \o bin(0, 1) \o marker
  \o bin(0, 1) \o bcd(tt.year \div 10, 4) \o bcd(tt.year, 4) \o marker
  \o bcd((tt.weekday + 1) % 7, 3) \o bin(0, 1) \o bin(0, 1) \o bin(0, 4) \o marker

Timecode2Tail_withYear(tt, p1, p2) ==
     bcd(tt.yearday, 4) \o bin(0, 2) \o bin(p1, 1) \o bin(p2, 1) \o bin(0, 1) \o marker
  \o bin(0, 1) \o bcd(tt.year \div 10, 4) \o bcd(tt.year, 4) \o marker
  \o bin(0, 6) \o bin(0, 3) \o marker
\* lines 204-208, Timecode2
Timecode2Tail(tt, p1, p2) ==
     bcd(tt.yearday, 4) \o bin(0, 2) \o bin(p1, 1) \o bin(p2, 1) \o bin(0, 1) \o marker
  \o bin(0, 9) \o marker
  \o bin(0, 6) \o bin(0, 3) \o marker

genTimecode(tt) ==
  LET v == Prefix(tt)
  IN  IF isTimecode1(tt)
      THEN v \o Timecode1Tail(tt, pa1(v), pa2(v))
      ELSE v \o Timecode2Tail(tt, pa1(v), pa2(v))

----------------------------------------------------------------------------
(* State shared by both specifications *)

TimeTuple(y, yd, wd, h, m, s) ==
  [year |-> y, yearday |-> yd, weekday |-> wd, hour |-> h, minute |-> m, second |-> s]

NoTime == TimeTuple(0, 0, 0, 0, 0, 0)
CtrlPins == {"PIN_CTRL", "LED"}
NoBase == [year |-> 0, yearday |-> 0, weekday |-> 0]

Idle ==
  /\ now = 0 /\ base = NoBase /\ secToRun = 0 /\ ticksTimeout = 0
  /\ entrySec = 0 /\ ret = "none" /\ pos = 0 /\ pulseWidth = 0
  /\ ctrl = [p \in CtrlPins |-> FALSE]
  /\ riseAt = 0 /\ riseSym = 0 /\ nSent = 0 /\ originSec = 0
  /\ iter = 0 /\ markSec = 0 /\ loopEntrySec = 0
  /\ frameMissed = 0 /\ worst = 0 /\ cycleDelay = 0 /\ late = 0
  /\ wifiUpAt = 0 /\ wifiTry = 0 /\ fetch = "none"
  /\ runAt = 0 /\ alignEnterAt = 0 /\ alignAt = 0 /\ loopAt = 0 /\ slip = 0

IdleVec == heap = << >> /\ selfVector = 0 /\ calls = << >> /\ pulses = << >>

----------------------------------------------------------------------------
(* SpecEnc: genTimecode applied to every time tuple of the input set *)

InitEnc ==
  /\ pc = "enc_ready"
  /\ \E y \in Years, yd \in YearDays, wd \in Weekdays, h \in Hours, m \in Minutes :
       t = TimeTuple(y, yd, wd, h, m, 0)
  /\ vector = << >>
  /\ Idle /\ IdleVec

Encode ==
  /\ pc = "enc_ready"
  /\ vector' = genTimecode(t)
  /\ pc' = "encoded"
  /\ UNCHANGED << now, base, secToRun, ticksTimeout, entrySec, ret, t, pos,
                  pulseWidth, ctrl, riseAt, riseSym, nSent, iter, markSec,
                  originSec, loopEntrySec, frameMissed, worst, cycleDelay, late,
                  bootVars, obsVars, vecVars >>

NextEnc == Encode

SpecEnc == InitEnc /\ [][NextEnc]_vars

Encoded == pc = "encoded"

----------------------------------------------------------------------------
(* Properties of the encoder, checked under SpecEnc *)

\* the number written most-significant bit first at positions p .. p+n-1
RECURSIVE Val(_, _, _)
Val(v, p, n) == IF n = 0 THEN 0 ELSE At(v, p) * Pow2(n - 1) + Val(v, p + 1, n - 1)

AllBits(v, ps) == \A p \in ps : At(v, p) \in {0, 1}
AllZero(v, ps) == \A p \in ps : At(v, p) = 0

MarkerPositions == {0, 9, 19, 29, 39, 49, 59}

\* C1: in every frame the common prefix holds, most-significant bit first,
\* the minute tens digit at 1-3, the minute ones digit at 5-8, the hour tens
\* digit at 12-13, the hour ones digit at 15-18, the yearday hundreds digit
\* at 22-23, its tens digit at 25-28 and its ones digit at 30-33, with 0 at
\* 4, 10, 11, 14, 20, 21, 24, 34 and 35; no digit loses a set bit.
C1_PrefixFields ==
  Encoded =>
    /\ AllBits(vector, (1..8) \cup (10..18) \cup (20..28) \cup (30..35))
    /\ Val(vector, 1, 3) = t.minute \div 10
    /\ Val(vector, 5, 4) = t.minute % 10
    /\ Val(vector, 12, 2) = t.hour \div 10
    /\ Val(vector, 15, 4) = t.hour % 10
    /\ Val(vector, 22, 2) = t.yearday \div 100
    /\ Val(vector, 25, 4) = (t.yearday \div 10) % 10
    /\ Val(vector, 30, 4) = t.yearday % 10
    /\ AllZero(vector, {4, 10, 11, 14, 20, 21, 24, 34, 35})

C1_Witness ==
  /\ Encoded /\ t.minute = 59 /\ t.hour = 23 /\ t.yearday = 366
  /\ Slice(vector, 1, 9) = << 1, 0, 1, 0, 1, 0, 0, 1 >>
  /\ Slice(vector, 22, 24) = << 1, 1 >>

\* C2: position 36 (PA1) is the sum mod 2 of the bits at 12-13 and 15-18 and
\* position 37 (PA2) is the sum mod 2 of the bits at 1-3 and 5-8, each a
\* single 0/1 symbol; for minute 38, PA2 = 1.
C2_Parity ==
  Encoded =>
    /\ AllBits(vector, {36, 37})
    /\ At(vector, 36) = (At(vector, 12) + At(vector, 13) + At(vector, 15)
                         + At(vector, 16) + At(vector, 17) + At(vector, 18)) % 2
    /\ At(vector, 37) = (At(vector, 1) + At(vector, 2) + At(vector, 3) + At(vector, 5)
                         + At(vector, 6) + At(vector, 7) + At(vector, 8)) % 2
    /\ (t.minute = 38 => At(vector, 37) = 1)

C2_Witness ==
  Encoded /\ t.minute = 38 /\ t.hour = 7 /\ At(vector, 37) = 1 /\ At(vector, 36) = 1

\* C3: the frame holds the Marker symbol (2) at exactly the positions
\* 0, 9, 19, 29, 39, 49 and 59, and 0 or 1 everywhere else.
C3_Markers ==
  Encoded =>
    /\ Len(vector) = 60
    /\ \A p \in 0..59 :
         IF p \in MarkerPositions THEN At(vector, p) = 2 ELSE At(vector, p) \in {0, 1}

C3_Witness ==
  /\ Encoded /\ t.minute = 45 /\ t.year = 2089
  /\ \A p \in MarkerPositions : At(vector, p) = 2

IsStandardLayout(v, tt) ==
  /\ AllZero(v, {38, 40} \cup (53..58))
  /\ AllBits(v, (41..48) \cup (50..52))
  /\ Val(v, 41, 4) = (tt.year \div 10) % 10
  /\ Val(v, 45, 4) = tt.year % 10
  /\ Val(v, 50, 3) = (IF tt.weekday = 6 THEN 0 ELSE tt.weekday + 1)

IsCallSignLayout(v) == AllZero(v, {38} \cup (40..48) \cup (50..58))

\* C4: over all 1440 (hour, minute) values and every date of the input set,
\* the frame has the CallSign layout when the minute is 15 or 45 and the
\* Standard layout otherwise; no other field takes part in the choice.
C4_VariantByMinute ==
  Encoded =>
    IF t.minute \in {15, 45}
    THEN IsCallSignLayout(vector)
    ELSE IsStandardLayout(vector, t)

C4_Witness ==
  /\ Encoded /\ t.minute = 45 /\ t.hour = 15 /\ t.year = 2023 /\ t.weekday = 2
  /\ IsCallSignLayout(vector) /\ ~IsStandardLayout(vector, t)

\* C5: when the minute is neither 15 nor 45, positions 38 and 40 are 0,
\* 41-44 hold the tens digit of the year, 45-48 its ones digit, 50-52 the
\* weekday counted from Sunday = 0, and 53-58 are 0.
C5_StandardTail ==
  (Encoded /\ t.minute \notin {15, 45}) =>
    /\ At(vector, 38) = 0 /\ At(vector, 40) = 0
    /\ Slice(vector, 41, 45) = bcd((t.year \div 10) % 10, 4)
    /\ Slice(vector, 45, 49) = bcd(t.year % 10, 4)
    /\ Val(vector, 50, 3) = (t.weekday + 1) % 7
    /\ (t.weekday = 6 => Slice(vector, 50, 53) = << 0, 0, 0 >>)
    /\ (t.weekday = 0 => Slice(vector, 50, 53) = << 0, 0, 1 >>)
    /\ (t.weekday = 5 => Slice(vector, 50, 53) = << 1, 1, 0 >>)
    /\ Slice(vector, 53, 59) = << 0, 0, 0, 0, 0, 0 >>

C5_Witness ==
  /\ Encoded /\ t.minute = 16 /\ t.year = 2089 /\ t.weekday = 5
  /\ Slice(vector, 41, 49) = << 1, 0, 0, 0, 1, 0, 0, 1 >>
  /\ Slice(vector, 50, 53) = << 1, 1, 0 >>

\* C6: when the minute is 15 or 45, positions 38, 40-48 and 50-58 are 0
\* whatever the year and weekday, so times that differ only in year and
\* weekday have the same frame.
C6_CallSignTail ==
  (Encoded /\ t.minute \in {15, 45}) =>
    /\ At(vector, 38) = 0
    /\ Slice(vector, 40, 49) = << 0, 0, 0, 0, 0, 0, 0, 0, 0 >>
    /\ Slice(vector, 50, 59) = << 0, 0, 0, 0, 0, 0, 0, 0, 0 >>
    /\ \A y \in Years, wd \in Weekdays :
         genTimecode([t EXCEPT !.year = y, !.weekday = wd]) = vector

C6_Witness ==
  /\ Encoded /\ t.minute = 15 /\ t.year = 2089 /\ t.weekday = 3
  /\ Slice(vector, 40, 49) = << 0, 0, 0, 0, 0, 0, 0, 0, 0 >>
----------------------------------------------------------------------------
(* pico_jjy_tx.py: the clock *)

\* secToRun * 1000, line 223
MsPerSec == 1000

\* utime.time(): the clock in whole seconds
utime_time == now \div MsPerSec

\* the tick counter wraps at 2^30
TicksPeriod == Pow2(30)

\* utime.ticks_ms()
ticks_ms == now % TicksPeriod

\* utime.ticks_add(ticks, delta)
ticks_add(ticks, delta) == (ticks + delta) % TicksPeriod

ticks_diff_swapped(ticks1, ticks2) ==
  ((ticks2 - ticks1 + TicksPeriod \div 2) % TicksPeriod) - TicksPeriod \div 2
\* utime.ticks_diff(ticks1, ticks2)
ticks_diff(ticks1, ticks2) ==
  ((ticks1 - ticks2 + TicksPeriod \div 2) % TicksPeriod) - TicksPeriod \div 2

DaysInYear(y) == IF (y % 4 = 0 /\ y % 100 # 0) \/ y % 400 = 0 THEN 366 ELSE 365

\* utime.localtime(secs), secs counted from 00:00:00 of the day `base'
localtime(secs) ==
  LET days == secs \div 86400
      sod  == secs % 86400
      yd   == base.yearday + days
      roll == yd > DaysInYear(base.year)
  IN  TimeTuple(IF roll THEN base.year + 1 ELSE base.year,
                IF roll THEN yd - DaysInYear(base.year) ELSE yd,
                (base.weekday + days) % 7,
                sod \div 3600, (sod % 3600) \div 60, sod % 60)

lcTime_now_noOffset(offset) == localtime(utime_time)
lcTime_now_twoAhead(offset) == localtime(utime_time + offset + offset)
\* LocalTime.now(offset)
lcTime_now(offset) == localtime(utime_time + offset)

----------------------------------------------------------------------------
(* pico_jjy_tx.py: main, connectWifi, LocalTime, Jjy.__init__ and Jjy.run *)

\* self.lcTime.now(1), line 236
LeadSeconds == 1

\* utime.sleep(0.2), line 234
SleepAfterAlign == 200

PulseWidthOf_longZero(value) ==
  IF value = 0 THEN 900 ELSE IF value = 1 THEN 500 ELSE 200
\* lines 214-219
PulseWidthOf(value) ==
  IF value = 0 THEN 800 ELSE IF value = 1 THEN 500 ELSE 200

control_firstPinOnly(enable) ==
  [p \in CtrlPins |-> IF p = "PIN_CTRL" THEN enable ELSE FALSE]
\* Jjy.__control
control(enable) == [p \in CtrlPins |-> enable]

SendArg_whole(v, tt) == v
SendArg_dropLast(v, tt) == SubSeq(v, tt.second + 1, Len(v) - 1)
\* vector[t.second:], line 239
SendArg(v, tt) == SubSeq(v, tt.second + 1, Len(v))

Max(a, b) == IF a >= b THEN a ELSE b

\* a delay of d ms is available: 0 always, more while delayed steps remain
CanDelay(d) == d = 0 \/ late < MaxLate
Delayed(d) == IF d = 0 THEN late ELSE late + 1

\* main() has switched the LED off and connectWifi() is about to poll; the
\* clock has not been corrected
InitRun ==
  /\ pc = "wifi"
  /\ now = 0 /\ base = StaleDay
  /\ wifiUpAt \in WifiUpSet /\ wifiTry = 0 /\ fetch = "none"
  /\ runAt = 0 /\ alignEnterAt = 0 /\ alignAt = 0 /\ loopAt = 0 /\ slip = 0
  /\ IdleVec
  /\ secToRun \in SecToRunSet
  /\ ticksTimeout = 0
  /\ entrySec = 0 /\ ret = "none"
  /\ t = NoTime /\ vector = << >> /\ pos = 0 /\ pulseWidth = 0
  /\ ctrl \in { c \in [CtrlPins -> BOOLEAN] : c["LED"] = FALSE }
  /\ riseAt = 0 /\ riseSym = 0 /\ nSent = 0 /\ iter = 0 /\ markSec = 0
  /\ loopEntrySec = 0
  /\ originSec = 0 /\ frameMissed = 0 /\ worst = 0 /\ cycleDelay = 0 /\ late = 0

\* wlan.isconnected()
isconnected == wifiTry >= wifiUpAt

MainAfterWifi_ignored(connected) == "led"
\* main(), lines 251-252: if not connectWifi(): return False
MainAfterWifi(connected) == IF connected THEN "led" ELSE "main_false"

\* what main() does not touch before Jjy is constructed
runIdle ==
  UNCHANGED << secToRun, ticksTimeout, entrySec, ret, t, vector, pos,
               pulseWidth, ctrl, riseAt, riseSym, nSent, iter, markSec,
               originSec, loopEntrySec, frameMissed, worst, cycleDelay, late,
               wifiUpAt, obsVars, vecVars >>

\* connectWifi(), lines 57-61: one poll of the link
WifiPoll ==
  /\ pc = "wifi" /\ wifiTry < WifiPolls
  /\ IF isconnected
     THEN /\ pc' = MainAfterWifi(TRUE)
          /\ UNCHANGED << now, wifiTry >>
     ELSE /\ now' = now + MsPerSec
          /\ wifiTry' = wifiTry + 1
          /\ pc' = pc
  /\ UNCHANGED << base, fetch >>
  /\ runIdle

\* connectWifi(), lines 62-64: the polls are used up
WifiTimeout ==
  /\ pc = "wifi" /\ wifiTry = WifiPolls
  /\ pc' = MainAfterWifi(FALSE)
  /\ UNCHANGED << now, base, wifiTry, fetch >>
  /\ runIdle

\* main(), lines 254-256: six toggles of the LED 100 ms apart leave it off
LedSign ==
  /\ pc = "led"
  /\ now' = now + 6 * 100
  /\ pc' = "lctime"
  /\ UNCHANGED << base, wifiTry, fetch >>
  /\ runIdle

\* LocalTime.__init__, lines 80-99: ntptime.settime() either corrects the
\* clock, which then shows one of Starts when __setRtc has returned, or
\* raises.  ETIMEDOUT (110) resets the device after 5 s; every other OSError
\* is caught and dropped, and the clock goes on uncorrected through the two
\* sleeps of 1 s; any other exception leaves main().
LocalTimeInit ==
  /\ pc = "lctime"
  /\ \E outcome \in {"ok", "ETIMEDOUT", "OSError", "Exception"} :
       /\ fetch' = outcome
       /\ CASE outcome = "ok" ->
                 /\ \E st \in Starts : now' = st.ms /\ base' = st.day
                 /\ pc' = "init"
            [] outcome = "ETIMEDOUT" ->
                 /\ now' = now + MsPerSec + 5 * MsPerSec /\ base' = base
                 /\ pc' = "reset"
            [] outcome = "OSError" ->
                 /\ now' = now + MsPerSec + MsPerSec /\ base' = base
                 /\ pc' = "init"
            [] outcome = "Exception" ->
                 /\ now' = now + MsPerSec /\ base' = base
                 /\ pc' = "raised"
  /\ UNCHANGED wifiTry
  /\ runIdle

\* Jjy.__init__: the dummy toggle leaves every control pin low
JjyInit ==
  /\ pc = "init"
  /\ ctrl' = control(FALSE)
  /\ pc' = "run"
  /\ UNCHANGED << now, base, secToRun, ticksTimeout, entrySec, ret, t, vector,
                  pos, pulseWidth, riseAt, riseSym, nSent, iter, markSec,
                  originSec, loopEntrySec, frameMissed, worst, cycleDelay, late,
                  bootVars, obsVars, vecVars >>

\* run(), lines 223-233: the timeout is fixed, then the first alignment
RunStart ==
  /\ pc = "run"
  /\ ticksTimeout' = ticks_add(ticks_ms, secToRun * MsPerSec)
  /\ runAt' = now
  /\ pc' = "align" /\ ret' = "sleep02"
  /\ UNCHANGED << now, base, secToRun, entrySec, t, vector, pos, pulseWidth,
                  ctrl, riseAt, riseSym, nSent, iter, markSec, originSec,
                  loopEntrySec,
                  frameMissed, worst, cycleDelay, late,
                  alignEnterAt, alignAt, loopAt, slip, bootVars, vecVars >>

\* alignSecondEdge(), line 103: t = self.now()
AlignEnter ==
  /\ pc = "align"
  /\ entrySec' = lcTime_now(0).second
  /\ alignEnterAt' = now
  /\ pc' = "poll"
  /\ IF ret = "raise"
     THEN /\ frameMissed' = frameMissed + (utime_time - markSec)
          /\ worst' = Max(worst, cycleDelay)
     ELSE UNCHANGED << frameMissed, worst >>
  /\ UNCHANGED << now, base, secToRun, ticksTimeout, ret, t, vector, pos,
                  pulseWidth, ctrl, riseAt, riseSym, nSent, iter, markSec,
                  originSec, loopEntrySec, cycleDelay, late,
                  runAt, alignAt, loopAt, slip, bootVars, vecVars >>

StillSameSecond_never == FALSE
\* alignSecondEdge(), line 104: t.second == self.now().second
StillSameSecond == entrySec = lcTime_now(0).second

\* alignSecondEdge(), lines 104-105: one test of the loop
Poll ==
  /\ pc = "poll"
  /\ IF StillSameSecond
     THEN /\ now' = now + PollSleep
          /\ pc' = pc
          /\ alignAt' = alignAt
     ELSE /\ now' = now
          /\ pc' = ret
          /\ alignAt' = IF ret = "sleep02" THEN now ELSE alignAt
  /\ UNCHANGED << base, secToRun, ticksTimeout, entrySec, ret, t, vector, pos,
                  pulseWidth, ctrl, riseAt, riseSym, nSent, iter, markSec,
                  originSec, loopEntrySec, frameMissed, worst, cycleDelay, late,
                  runAt, alignEnterAt, loopAt, slip, bootVars, vecVars >>

\* run(), line 234
SleepSame ==
  /\ pc = "sleep02"
  /\ now' = now + SleepAfterAlign
  /\ pc' = "loop"
  /\ UNCHANGED << base, secToRun, ticksTimeout, entrySec, ret, t, vector, pos,
                  pulseWidth, ctrl, riseAt, riseSym, nSent, iter, markSec,
                  originSec, loopEntrySec, frameMissed, worst, cycleDelay, late,
                  bootVars, obsVars, vecVars >>

\* run(), lines 236-238: t is read, the frame generated and printed
LoopTop ==
  /\ pc = "loop"
  /\ nSent < MaxSymbols
  /\ t' = lcTime_now(LeadSeconds)
  /\ vector' = genTimecode(t')
  /\ pos' = 0
  /\ \E d \in Delays :
       /\ CanDelay(d)
       /\ now' = now + d
       /\ cycleDelay' = cycleDelay + d
       /\ late' = Delayed(d)
  /\ iter' = iter + 1
  /\ markSec' = utime_time
  /\ loopEntrySec' = IF iter = 0 THEN utime_time ELSE loopEntrySec
  /\ loopAt' = IF iter = 0 THEN now ELSE loopAt
  /\ slip' = IF iter = 0 THEN 0 ELSE frameMissed + (utime_time - markSec)
  /\ frameMissed' = 0
  /\ pc' = "send"
  /\ UNCHANGED << base, secToRun, ticksTimeout, entrySec, ret, pulseWidth,
                  ctrl, riseAt, riseSym, nSent, originSec, worst,
                  runAt, alignEnterAt, alignAt, bootVars, vecVars >>

\* sendTimecode(), lines 211-212: the next value of the argument, if any
SendNext ==
  /\ pc = "send"
  /\ IF pos < Len(SendArg(vector, t))
     THEN /\ nSent < MaxSymbols
          /\ pc' = "align" /\ ret' = "raise"
     ELSE /\ pc' = "check" /\ ret' = ret
  /\ UNCHANGED << now, base, secToRun, ticksTimeout, entrySec, t, vector, pos,
                  pulseWidth, ctrl, riseAt, riseSym, nSent, iter, markSec,
                  originSec, loopEntrySec, frameMissed, worst, cycleDelay, late,
                  bootVars, obsVars, vecVars >>

\* sendTimecode(), lines 213-219: the leading edge
Raise ==
  /\ pc = "raise"
  /\ LET value == SendArg(vector, t)[pos + 1]
     IN  /\ ctrl' = control(TRUE)
         /\ pulseWidth' = PulseWidthOf(value)
         /\ riseSym' = value
  /\ riseAt' = now
  /\ nSent' = nSent + 1
  /\ originSec' = IF nSent = 0 THEN utime_time ELSE originSec
  /\ markSec' = utime_time
  /\ cycleDelay' = now - utime_time * MsPerSec
  /\ pc' = "hold"
  /\ UNCHANGED << now, base, secToRun, ticksTimeout, entrySec, ret, t, vector,
                  pos, iter, loopEntrySec, frameMissed, worst, late,
                  bootVars, obsVars, vecVars >>

\* sendTimecode(), lines 220-221: the pulse is held, then the line lowered
Lower ==
  /\ pc = "hold"
  /\ \E d \in Delays :
       /\ CanDelay(d)
       /\ now' = now + pulseWidth + d
       /\ cycleDelay' = cycleDelay + d
       /\ late' = Delayed(d)
  /\ ctrl' = control(FALSE)
  /\ pos' = pos + 1
  /\ pc' = "send"
  /\ UNCHANGED << base, secToRun, ticksTimeout, entrySec, ret, t, vector,
                  pulseWidth, riseAt, riseSym, nSent, iter, markSec, originSec,
                  loopEntrySec,
                  frameMissed, worst,
                  bootVars, obsVars, vecVars >>

TimedOut_never == FALSE
\* run(), line 240
TimedOut == secToRun > 0 /\ ticks_diff(ticks_ms, ticksTimeout) > 0

\* run(), lines 240-242
CheckTimeout ==
  /\ pc = "check"
  /\ IF TimedOut
     THEN pc' = "returned"
     ELSE pc' = "loop"
  /\ UNCHANGED << now, base, secToRun, ticksTimeout, entrySec, ret, t, vector,
                  pos, pulseWidth, ctrl, riseAt, riseSym, nSent, iter, markSec,
                  originSec, loopEntrySec, frameMissed, worst, cycleDelay, late,
                  bootVars, obsVars, vecVars >>

\* main(), lines 270-272: run() has returned; sleep(5), machine.reset()
MainReset ==
  /\ pc = "returned"
  /\ now' = now + 5 * MsPerSec
  /\ pc' = "reset"
  /\ UNCHANGED << base, secToRun, ticksTimeout, entrySec, ret, t, vector, pos,
                  pulseWidth, ctrl, riseAt, riseSym, nSent, iter, markSec,
                  originSec, loopEntrySec, frameMissed, worst, cycleDelay, late,
                  bootVars, obsVars, vecVars >>

Next ==
  \/ WifiPoll
  \/ WifiTimeout
  \/ LedSign
  \/ LocalTimeInit
  \/ JjyInit
  \/ RunStart
  \/ AlignEnter
  \/ Poll
  \/ SleepSame
  \/ LoopTop
  \/ SendNext
  \/ Raise
  \/ Lower
  \/ CheckTimeout
  \/ MainReset

Spec == InitRun /\ [][Next]_vars

\* SpecLive: Jjy and run() from the moment main() has constructed a
\* corrected LocalTime, the link having come up at the fourth poll
LiveStarts == { st \in Starts : st.ms % 60000 = 55300 }

InitLive ==
  /\ pc = "init"
  /\ \E st \in LiveStarts : now = st.ms /\ base = st.day
  /\ wifiUpAt = 3 /\ wifiTry = 3 /\ fetch = "ok"
  /\ runAt = 0 /\ alignEnterAt = 0 /\ alignAt = 0 /\ loopAt = 0 /\ slip = 0
  /\ IdleVec
  /\ secToRun \in SecToRunSet
  /\ ticksTimeout = 0
  /\ entrySec = 0 /\ ret = "none"
  /\ t = NoTime /\ vector = << >> /\ pos = 0 /\ pulseWidth = 0
  /\ ctrl \in { c \in [CtrlPins -> BOOLEAN] : c["LED"] = FALSE }
  /\ riseAt = 0 /\ riseSym = 0 /\ nSent = 0 /\ iter = 0 /\ markSec = 0
  /\ loopEntrySec = 0
  /\ originSec = 0 /\ frameMissed = 0 /\ worst = 0 /\ cycleDelay = 0 /\ late = 0

NextLive ==
  \/ JjyInit
  \/ RunStart
  \/ AlignEnter
  \/ Poll
  \/ SleepSame
  \/ LoopTop
  \/ SendNext
  \/ Raise
  \/ Lower
  \/ CheckTimeout
  \/ MainReset

\* the program is the only thread of the device: it takes its next step
\* whenever it has one
SpecLive == InitLive /\ [][NextLive]_vars /\ WF_vars(NextLive)

----------------------------------------------------------------------------
(* Properties of run(), checked under Spec *)

\* a leading edge has just been produced: the clock still shows its instant
Raised == pc = "hold"

\* position in the frame of the value whose pulse is up
FrameIndex == t.second + pos

\* second edges since the loop was entered at which no symbol was raised
MissedTotal == utime_time - loopEntrySec - nSent

AllLow  == \A p \in CtrlPins : ctrl[p] = FALSE
AllHigh == \A p \in CtrlPins : ctrl[p] = TRUE

\* Marker = 200 ms, One = 500 ms, Zero = 800 ms
ClaimedWidth(sym) == CASE sym = 0 -> 800 [] sym = 1 -> 500 [] OTHER -> 200

\* C7 as stated: at every leading edge, also after an overrun, the symbol
\* raised is frame[s], s the clock's second-of-minute at that edge.
C7_Original ==
  Raised => /\ FrameIndex = lcTime_now(0).second
            /\ riseSym = At(vector, lcTime_now(0).second)

\* C7 as amended: at every leading edge the position of the symbol raised
\* lags the clock's second-of-minute by the number of second edges missed
\* since the time tuple of its frame was read; when none was missed the
\* symbol is frame[s] of the frame of the minute now elapsing.  The frame is
\* derived once per iteration of the loop, never within a frame.
C7_AlignedUnlessMissed ==
  Raised =>
    /\ (FrameIndex + frameMissed) % 60 = lcTime_now(0).second
    /\ frameMissed = 0 =>
         /\ FrameIndex = lcTime_now(0).second
         /\ vector = genTimecode(lcTime_now(0))
         /\ riseSym = At(genTimecode(lcTime_now(0)), lcTime_now(0).second)

C7_Witness ==
  /\ Raised /\ iter = 2 /\ frameMissed = 0 /\ t.second > 0 /\ pos > 0
  /\ FrameIndex = lcTime_now(0).second

\* C8 as stated: the first symbol transmitted is frame[k], k the second of
\* the time tuple read at loop entry; frame[k..59] follow in index order, one
\* per second; the next frame starts at index 0.
C8_Original ==
  Raised =>
    /\ iter = 1 =>
         /\ t.second + nSent - 1 <= 59
         /\ riseSym = At(genTimecode(t), t.second + nSent - 1)
         /\ utime_time = originSec + nSent - 1
    /\ (iter = 2 /\ pos = 0) => t.second = 0

\* C8 as amended: the first symbol transmitted is frame[k] and frame[k..59]
\* follow in index order; they go one per second while no second edge is
\* missed, and the next frame starts at the index equal to the number of
\* second edges missed while the first was sent: 0 when none was.
C8_ResumeMidMinute ==
  Raised =>
    /\ iter = 1 =>
         /\ t.second + nSent - 1 <= 59
         /\ riseSym = At(genTimecode(t), t.second + nSent - 1)
         /\ nSent = 1 => lcTime_now(0).second = (t.second + frameMissed) % 60
         /\ frameMissed = 0 => utime_time = originSec + nSent - 1
    /\ (iter = 2 /\ pos = 0) => t.second = MissedTotal - frameMissed

C8_Witness ==
  /\ Raised /\ iter = 2 /\ pos = 0 /\ t.second = 0 /\ t.minute = 5
  /\ nSent = 24 /\ riseSym = 2 /\ MissedTotal = 0

C10_Levels ==
  /\ pc = "hold" => (AllHigh /\ pulseWidth = ClaimedWidth(riseSym))
  /\ pc \in {"run", "align", "poll", "sleep02", "loop", "send", "raise",
              "check", "returned"} => AllLow

C10_Edges ==
  /\ pc = "hold" =>
       /\ AllLow'
       /\ now' - riseAt >= ClaimedWidth(riseSym)
       /\ late' = late => now' - riseAt = ClaimedWidth(riseSym)
  /\ (ctrl' # ctrl /\ pc # "init") =>
       \/ pc = "raise" /\ AllLow /\ AllHigh' /\ nSent' = nSent + 1
       \/ pc = "hold"

\* C10: for every symbol sent all control pins are raised once, from low,
\* held for the sleep of 800 ms (Zero), 500 ms (One) or 200 ms (Marker),
\* exactly that long when the sleep does not overshoot, and lowered; they
\* are low at every other moment of run() and when run() has returned.
C10_PulseShape == []C10_Levels /\ [][C10_Edges]_vars

C10_Witness ==
  /\ pc = "hold" /\ riseSym = 0 /\ pulseWidth = 800 /\ AllHigh /\ iter = 2

----------------------------------------------------------------------------
(* Properties of the duration limit of run(), checked under Spec *)

\* secToRun is of a length the tick counter can measure
Measurable == secToRun * MsPerSec < TicksPeriod \div 2

\* C11 as stated: run(secToRun), secToRun > 0, has not returned before
\* secToRun seconds have elapsed since its loop was entered.
C11_Original ==
  (pc = "returned" /\ secToRun > 0 /\ Measurable) =>
    now - loopAt >= secToRun * MsPerSec

\* C11 as amended: the limit is counted from the entry of run(), before the
\* first alignment.  When run(secToRun) returns, secToRun measurable, more
\* than secToRun seconds have elapsed since run() was entered; the loop is
\* entered later by the wait for the second edge, less than 1 s and one
\* sleep of the polling loop, and by the sleep of 0.2 s, and the time
\* elapsed since then may fall short of secToRun by less than that.  A
\* secToRun the tick counter cannot measure ends run() with the first frame.
C11_SinceRunEntered ==
  (pc = "returned" /\ secToRun > 0) =>
    /\ Measurable =>
         /\ now - runAt > secToRun * MsPerSec
         /\ loopAt - runAt < MsPerSec + PollSleep + SleepAfterAlign
         /\ now - loopAt > secToRun * MsPerSec
                             - (MsPerSec + PollSleep + SleepAfterAlign)
    /\ ~Measurable => iter = 1

C11_Witness ==
  /\ pc = "returned" /\ secToRun = 24 /\ fetch = "ok"
  /\ now - runAt > 24000 /\ now - loopAt < 24000
----------------------------------------------------------------------------
(* Properties of start-up, checked under Spec *)

\* ntptime.settime() was called and raised
FetchFailed == fetch \in {"ETIMEDOUT", "OSError", "Exception"}

\* C12: whenever the fetch of the network time fails, whatever the failure,
\* start-up ends there, by an exception leaving main() or by a reset of the
\* device, and no symbol is ever raised by a run() whose clock was not
\* corrected by a successful fetch.
C12_FetchFailureFatal ==
  /\ FetchFailed => pc \in {"raised", "reset"}
  /\ nSent > 0 => fetch = "ok"
----------------------------------------------------------------------------
(* Further properties of the encoder, checked under SpecEnc *)

\* 2023-01-01, a Sunday, 03:04:00
Scenario == TimeTuple(2023, 1, 6, 3, 4, 0)

\* C13 as stated: position 36 (PA1) of the frame of 2023-01-01 03:04:00 is
\* the One symbol.
C13_Original ==
  (Encoded /\ t = Scenario) => At(vector, 36) = 1

\* C13 as amended: hour 03 is written 00 0011, two bits set, so position 36
\* (PA1) of the frame of 2023-01-01 03:04:00 is the Zero symbol; minute 04
\* is written 000 0100, one bit set, so position 37 (PA2) is the One symbol.
C13_ScenarioParity ==
  (Encoded /\ t = Scenario) =>
    /\ Slice(vector, 12, 14) = << 0, 0 >>
    /\ Slice(vector, 15, 19) = << 0, 0, 1, 1 >>
    /\ At(vector, 36) = 0
    /\ At(vector, 37) = 1

C13_Witness ==
  Encoded /\ t = Scenario /\ Slice(vector, 36, 38) = << 0, 1 >>

\* C15: the frame of every valid time tuple has exactly 60 symbols, at the
\* positions 0 to 59, in the Standard and in the CallSign layout alike.
C15_SixtySymbols ==
  Encoded => /\ Len(vector) = 60
             /\ \A p \in 0..59 : At(vector, p) \in {0, 1, 2}

C15_Witness ==
  /\ Encoded /\ t.minute = 45 /\ t.hour = 23 /\ t.yearday = 366
  /\ Len(vector) = 60 /\ At(vector, 59) = 2
----------------------------------------------------------------------------
(* Further properties of run(), checked under Spec *)

\* C14: the time tuple of a frame is read one second ahead of the clock.
\* At every leading edge reached without a second edge missed since that
\* tuple was read, the frame is the one encoding the minute, hour, day and
\* year the clock shows at that edge, across the hour, day and year
\* rollover too, and the symbol is the one at the clock's second; so the
\* symbol raised at hh:15:00 or hh:45:00 is position 0 of a CallSign frame
\* and the one raised at hh:16:00 or hh:46:00 position 0 of a Standard frame.
C14_FrameOfItsMinute ==
  (Raised /\ frameMissed = 0) =>
    LET c == lcTime_now(0)
    IN  /\ t.minute = c.minute /\ t.hour = c.hour
        /\ t.yearday = c.yearday /\ t.year = c.year /\ t.weekday = c.weekday
        /\ vector = genTimecode(t)
        /\ FrameIndex = c.second
        /\ c.second = 0 =>
             /\ pos = 0 /\ riseSym = 2
             /\ c.minute \in {15, 45} => IsCallSignLayout(vector)
             /\ c.minute \notin {15, 45} => IsStandardLayout(vector, c)

C14_Witness ==
  /\ Raised /\ frameMissed = 0 /\ MissedTotal = 0 /\ iter = 3
  /\ lcTime_now(0).minute = 16 /\ lcTime_now(0).second = 0
  /\ pos = 0 /\ IsStandardLayout(vector, t) /\ ~IsCallSignLayout(vector)

\* further cases of C14: the year rollover and the switch at hh:45:00
C14_Rollover ==
  /\ Raised /\ MissedTotal = 0 /\ pos = 0
  /\ t = TimeTuple(2024, 1, 0, 0, 0, 0) /\ lcTime_now(0) = t
C14_CallSign ==
  /\ Raised /\ MissedTotal = 0 /\ pos = 0 /\ lcTime_now(0).second = 0
  /\ lcTime_now(0).minute = 45 /\ IsCallSignLayout(vector)

\* C16: whatever delays the steps of run() meet, the leading edge of the
\* i-th symbol lies i clock seconds or more after the second edge at which
\* the initial alignSecondEdge() returned, hence i - 1 seconds or more after
\* the instant of that return, and every leading edge lies in a later clock
\* second than the one before it: no two fall within the same second.
C16_Ordering ==
  /\ Raised =>
       /\ utime_time >= alignAt \div MsPerSec + nSent
       /\ riseAt >= alignAt + (nSent - 1) * MsPerSec
       /\ utime_time >= originSec + nSent - 1
  /\ (pc = "raise" /\ nSent > 0) => utime_time > riseAt \div MsPerSec

C16_Witness ==
  /\ Raised /\ nSent > 1 /\ late = 1 /\ MissedTotal > 0
  /\ utime_time > alignAt \div MsPerSec + nSent

\* alignSecondEdge() has just returned: no step has been taken since
AlignReturned == pc \in {"sleep02", "raise"}

\* C20: alignSecondEdge() goes on polling while the clock shows the second
\* of minute it showed at the entry, and returns at the first poll that
\* finds another; when it returns the second differs from the one at the
\* entry, the clock second is the one next to the second of the entry and
\* less than one sleep of the loop has passed of it, so that the call took
\* no more than 1 s and one such sleep; called on a second edge, it waits
\* for the next.
C20_WaitsForNextSecond ==
  /\ pc = "poll" =>
       /\ utime_time <= alignEnterAt \div MsPerSec + 1
       /\ now > alignEnterAt => lcTime_now(0).second # entrySec
                                   \/ now - alignEnterAt < MsPerSec
  /\ AlignReturned =>
       /\ lcTime_now(0).second # entrySec
       /\ lcTime_now(0).second = (entrySec + 1) % 60
       /\ utime_time = alignEnterAt \div MsPerSec + 1
       /\ now - utime_time * MsPerSec < PollSleep
       /\ now - alignEnterAt < MsPerSec + PollSleep
       /\ now > alignEnterAt

C20_Witness ==
  /\ AlignReturned /\ alignEnterAt % MsPerSec = 0
  /\ now = alignEnterAt + MsPerSec /\ lcTime_now(0).second = (entrySec + 1) % 60

\* connectWifi() has found the link down at every one of its polls
JoinFailed == wifiTry = WifiPolls

\* C18: when the link has not come up within the 10 polls, 1 s apart, of
\* connectWifi(), main() returns False and goes no further: the time is not
\* fetched, Jjy is not constructed, no frame is generated and the control
\* pins are not written.
C18_NoJoinNoTransmission ==
  JoinFailed =>
    /\ pc \in {"wifi", "main_false"}
    /\ now = WifiPolls * MsPerSec
    /\ fetch = "none" /\ base = StaleDay
    /\ runAt = 0 /\ iter = 0 /\ vector = << >> /\ t = NoTime
    /\ nSent = 0 /\ riseAt = 0 /\ ctrl["LED"] = FALSE

C18_Witness ==
  /\ pc = "main_false" /\ JoinFailed /\ wifiUpAt = WifiPolls
  /\ fetch = "none" /\ nSent = 0

----------------------------------------------------------------------------
(* Termination of run(), checked under SpecLive *)

\* C17: run(0) never returns, so the device is then reset only by a fetch
\* that timed out; run(secToRun) with secToRun > 0, once entered, returns
\* to main(), which then resets the device.
C17_Endless ==
  secToRun = 0 => /\ pc # "returned"
                  /\ pc = "reset" => fetch = "ETIMEDOUT"

C17_Returns ==
  (pc = "run" /\ secToRun > 0) ~> (pc = "returned")

C17_ThenReset ==
  (pc = "returned") ~> (pc = "reset" /\ ctrl = control(FALSE))

C17_Termination == []C17_Endless /\ C17_Returns /\ C17_ThenReset

C17_Witness ==
  /\ pc = "reset" /\ secToRun = 24 /\ iter = 2 /\ fetch = "ok"
  /\ now - runAt > 24 * MsPerSec

\* a further case of C17: run(0) goes on beyond the second frame
C17_StillRunning == secToRun = 0 /\ iter = 3 /\ Raised
----------------------------------------------------------------------------
(* SpecVec: the encoder of pico_ntp2jjy.py, which builds its frame in the  *)
(* list self.__vector.  heap holds the list objects created so far; a      *)
(* list is referred to by its index in heap, and a frame returned to a     *)
(* caller is such a reference.                                             *)

\* the time tuples encoded in SpecVec
VecTimes ==
  { TimeTuple(2023, 1, 6, 3, 4, 0),   TimeTuple(2024, 60, 3, 0, 15, 0),
    TimeTuple(2024, 60, 3, 12, 45, 0), TimeTuple(2089, 366, 5, 23, 59, 0),
    TimeTuple(2024, 60, 3, 0, 16, 0) }

resetVector_clear(h, self) ==
  IF self = 0 THEN [heap |-> Append(h, << >>), self |-> Len(h) + 1]
              ELSE [heap |-> [h EXCEPT ![self] = << >>], self |-> self]
\* Jjy.__resetVector: self.__vector refers to a new, empty list
resetVector(h, self) == [heap |-> Append(h, << >>), self |-> Len(h) + 1]

\* Jjy.__appendVector: the list self.__vector refers to grows in place
appendVector(h, self, value) == [h EXCEPT ![self] = Append(@, value)]

\* Jjy.__addMarker: the value appended
addMarker == << 2 >>

\* Jjy.__addBcd: the bits appended, most significant first; their sum is
\* the parity returned
addBcd(value, numDigits) ==
  [i \in 1..numDigits |-> ((value % 10) \div Pow2(numDigits - i)) % 2]

addBin_noMask(value, count) == [i \in 1..count |-> value]
\* Jjy.__addBin: value & 0b1 appended count times
addBin(value, count) == [i \in 1..count |-> value % 2]

\* Jjy.__genTimecode: the values it appends, in order
Appended(tt) ==
  LET m10 == addBcd(tt.minute \div 10, 3)
      m1  == addBcd(tt.minute, 4)
      h10 == addBcd(tt.hour \div 10, 2)
      h1  == addBcd(tt.hour, 4)
      pa2n == sum(m10) + sum(m1)
      pa1n == sum(h10) + sum(h1)
  IN     addMarker \o m10 \o addBin(0, 1) \o m1
      \o addMarker \o addBin(0, 2) \o h10 \o addBin(0, 1) \o h1
      \o addMarker \o addBin(0, 2) \o addBcd(tt.yearday \div 100, 2)
      \o addBin(0, 1) \o addBcd(tt.yearday \div 10, 4)
      \o addMarker \o addBcd(tt.yearday, 4) \o addBin(0, 2)
      \o addBin(pa1n, 1) \o addBin(pa2n, 1)
      \o (IF ~(tt.minute = 15 \/ tt.minute = 45)
           THEN    addBin(0, 1) \o addMarker \o addBin(0, 1)
                \o addBcd(tt.year \div 10, 4) \o addBcd(tt.year, 4)
                \o addMarker \o addBcd((tt.weekday + 1) % 7, 3)
                \o addBin(0, 1) \o addBin(0, 1) \o addBin(0, 4)
           ELSE    addBin(0, 1) \o addMarker \o addBin(0, 9)
                \o addMarker \o addBin(0, 6) \o addBin(0, 3))
      \o addMarker

\* the appends of one call, one value at a time
RECURSIVE appendAll(_, _, _)
appendAll(h, self, values) ==
  IF values = << >> THEN h
  ELSE appendAll(appendVector(h, self, Head(values)), self, Tail(values))

InitVec ==
  /\ pc = "vec"
  /\ t = NoTime /\ vector = << >>
  /\ Idle /\ IdleVec

\* one call of Jjy.__genTimecode(t); __getVector returns the reference
Jjy_genTimecode ==
  /\ pc = "vec" /\ Len(calls) < MaxCalls
  /\ \E tt \in VecTimes :
       LET r  == resetVector(heap, selfVector)
           h2 == appendAll(r.heap, r.self, Appended(tt))
       IN  /\ heap' = h2
           /\ selfVector' = r.self
           /\ calls' = Append(calls, [t |-> tt, ref |-> r.self, frame |-> h2[r.self]])
  /\ UNCHANGED << pc, now, base, secToRun, ticksTimeout, entrySec, ret, t,
                  vector, pos, pulseWidth, ctrl, riseAt, riseSym, nSent, iter,
                  markSec, originSec, loopEntrySec, frameMissed, worst,
                  cycleDelay, late, pulses, bootVars, obsVars >>

NextVec == Jjy_genTimecode

SpecVec == InitVec /\ [][NextVec]_vars

\* C19: every frame a call of the encoder has returned is still, after any
\* number of later calls, the list of 60 values it was when it was
\* returned, and two calls given the same time tuple, whatever was encoded
\* between them, return distinct lists of identical contents.
C19_Stateless ==
  \A i \in 1..Len(calls) :
    /\ heap[calls[i].ref] = calls[i].frame
    /\ Len(calls[i].frame) = 60
    /\ \A j \in 1..Len(calls) :
         /\ i # j => calls[i].ref # calls[j].ref
         /\ calls[i].t = calls[j].t => heap[calls[i].ref] = heap[calls[j].ref]

C19_Witness ==
  /\ Len(calls) = 3
  /\ calls[1].t = calls[3].t /\ calls[2].t # calls[1].t
  /\ calls[1].ref # calls[3].ref
  /\ heap[calls[1].ref] = heap[calls[3].ref]
  /\ heap[calls[1].ref] = calls[1].frame
----------------------------------------------------------------------------
(* Properties of the frames of run(), checked under Spec *)

\* a frame has been sent to its end and none begun since
FrameEnded == pc \in {"check", "returned", "reset"} /\ nSent > 0

\* C21: the duration limit is tested only when a frame has been sent
\* through position 59: whenever it is tested, and when run() has returned,
\* the symbol raised last is the Marker at position 59 of its frame and no
\* position from t.second on was left out.  A frame is begun only while the
\* limit has not passed, so that no more than the symbols of one frame, 60
\* at most, are raised after it.
C21_WholeFrames ==
  /\ FrameEnded =>
       /\ t.second + pos = 60
       /\ pos >= 1 /\ pos <= 60
       /\ riseSym = 2 /\ riseSym = At(vector, 59)
       /\ ctrl = control(FALSE)
  /\ pc \in {"align", "poll", "raise", "hold"} /\ iter > 0 =>
       FrameIndex <= 59 /\ pos < Len(SendArg(vector, t))
  /\ (pc = "loop" /\ iter > 0 /\ secToRun > 0 /\ Measurable) =>
       now - runAt <= secToRun * MsPerSec

C21_Witness ==
  /\ pc = "returned" /\ secToRun = 24 /\ iter = 2
  /\ t.second = 0 /\ pos = 60 /\ riseSym = 2
  /\ now - runAt > (24 + 30) * MsPerSec

\* C22: while a frame is sent, the position of the symbol raised lags the
\* clock's second of minute by the second edges missed since the frame's
\* time tuple was read.  When k second edges in all have passed without a
\* symbol by the time the next tuple is read, that tuple has second k: the
\* next frame is sent from position k, and from its first symbol on, until
\* a second edge is missed again, every symbol is the one at the clock's
\* second of minute, taken from the frame of the minute then elapsing.
C22_Realigned ==
  /\ Raised => (FrameIndex + frameMissed) % 60 = lcTime_now(0).second
  /\ iter >= 2 =>
       /\ t.second = slip
       /\ (Raised /\ pos = 0) =>
            /\ FrameIndex = slip
            /\ riseSym = At(vector, slip)
       /\ (Raised /\ frameMissed = 0) =>
            /\ FrameIndex = lcTime_now(0).second
            /\ riseSym = At(genTimecode(lcTime_now(0)), lcTime_now(0).second)
            /\ t.minute = lcTime_now(0).minute

C22_Witness ==
  /\ Raised /\ iter = 2 /\ slip = 1 /\ late = 1 /\ frameMissed = 0
  /\ pos = 5 /\ FrameIndex = 6 /\ lcTime_now(0).second = 6
  /\ riseSym = At(vector, 6)
----------------------------------------------------------------------------
(* main.py: Jjy.__sendTimecode1 and __sendTimecode2 send the symbols as    *)
(* they compute them.  log is the sequence of the values passed to         *)
(* __sendPulse so far; every operator returns the log it leaves.           *)

\* Jjy.__sendPulse(value): the value sent
sendPulse(log, value) == Append(log, value)

\* Jjy.__sendMarker
sendMarker(log) == sendPulse(log, 2)

\* Jjy.__sendBcd, lines 193-197: the loop from bitPos down to 0
RECURSIVE sendBcdLoop(_, _, _)
sendBcdLoop(log, value, bitPos) ==
  IF bitPos >= 0
  THEN sendBcdLoop(sendPulse(log, Bit(value, bitPos)), value, bitPos - 1)
  ELSE log

\* Jjy.__sendBcd(value, numDigits): the pulses it sends
sendBcd(log, value, numDigits) == sendBcdLoop(log, value % 10, numDigits - 1)

\* Jjy.__sendBcd(value, numDigits): the parity it returns
RECURSIVE sendBcdParity(_, _)
sendBcdParity(value, numDigits) ==
  IF numDigits = 0 THEN 0
  ELSE Bit(value % 10, numDigits - 1) + sendBcdParity(value, numDigits - 1)

\* Jjy.__send0(count)
RECURSIVE send0(_, _)
send0(log, count) ==
  IF count = 0 THEN log ELSE send0(sendPulse(log, 0), count - 1)

\* lines 118-137 and 162-181: both functions begin alike, up to PA2
sendCommon(log, nw) ==
  LET pa2m == sendBcdParity(nw.minute \div 10, 3) + sendBcdParity(nw.minute, 4)
      pa1m == sendBcdParity(nw.hour \div 10, 2) + sendBcdParity(nw.hour, 4)
      a1 == sendMarker(log)
      a2 == sendBcd(a1, nw.minute \div 10, 3)
      a3 == send0(a2, 1)
      a4 == sendBcd(a3, nw.minute, 4)
      a5 == sendMarker(a4)
      a6 == send0(a5, 2)
      a7 == sendBcd(a6, nw.hour \div 10, 2)
      a8 == send0(a7, 1)
      a9 == sendBcd(a8, nw.hour, 4)
      b1 == sendMarker(a9)
      b2 == send0(b1, 2)
      b3 == sendBcd(b2, nw.yearday \div 100, 2)
      b4 == send0(b3, 1)
      b5 == sendBcd(b4, nw.yearday \div 10, 4)
      b6 == sendMarker(b5)
      b7 == sendBcd(b6, nw.yearday, 4)
      b8 == send0(b7, 2)
      b9 == sendPulse(b8, pa1m % 2)
  IN  sendPulse(b9, pa2m % 2)

\* Jjy.__sendTimecode1(now)
sendTimecode1(log, nw) ==
  LET c1 == send0(sendCommon(log, nw), 1)
      c2 == sendMarker(c1)
      c3 == send0(c2, 1)
      c4 == sendBcd(c3, nw.year \div 10, 4)
      c5 == sendBcd(c4, nw.year, 4)
      c6 == sendMarker(c5)
      c7 == sendBcd(c6, (nw.weekday + 1) % 7, 3)
      c8 == send0(c7, 1)
      c9 == send0(c8, 1)
      d1 == send0(c9, 4)
  IN  sendMarker(d1)

\* Jjy.__sendTimecode2(now)
sendTimecode2(log, nw) ==
  LET c1 == send0(sendCommon(log, nw), 1)
      c2 == sendMarker(c1)
      c3 == send0(c2, 9)
      c4 == sendMarker(c3)
      c5 == send0(c4, 6)
      c6 == send0(c5, 3)
  IN  sendMarker(c6)

----------------------------------------------------------------------------
(* SpecEq: one time tuple given to the three programs in turn *)

\* the dates tried: every year and day of the year of the input sets, and
\* every weekday among them
EqDates ==
  { [year |-> y, yearday |-> yd, weekday |-> (y + yd) % 7] : y \in Years, yd \in YearDays }

InitEq ==
  /\ pc = "eq_ready"
  /\ \E d \in EqDates, h \in Hours, m \in Minutes :
       t = TimeTuple(d.year, d.yearday, d.weekday, h, m, 0)
  /\ vector = << >>
  /\ Idle /\ IdleVec

\* pico_jjy_tx.py: vector = genTimecode(t), line 237
TxEncode ==
  /\ pc = "eq_ready"
  /\ vector' = genTimecode(t)
  /\ pc' = "eq_tx"
  /\ UNCHANGED << now, base, secToRun, ticksTimeout, entrySec, ret, t, pos,
                  pulseWidth, ctrl, riseAt, riseSym, nSent, iter, markSec,
                  originSec, loopEntrySec, frameMissed, worst, cycleDelay, late,
                  bootVars, obsVars, vecVars >>

\* pico_ntp2jjy.py: vector = self.__genTimecode(t), line 231
NtpEncode ==
  /\ pc = "eq_tx"
  /\ LET r  == resetVector(heap, selfVector)
         h2 == appendAll(r.heap, r.self, Appended(t))
     IN  /\ heap' = h2
         /\ selfVector' = r.self
         /\ calls' = Append(calls, [t |-> t, ref |-> r.self, frame |-> h2[r.self]])
  /\ pc' = "eq_ntp"
  /\ UNCHANGED << now, base, secToRun, ticksTimeout, entrySec, ret, t, vector,
                  pos, pulseWidth, ctrl, riseAt, riseSym, nSent, iter, markSec,
                  originSec, loopEntrySec, frameMissed, worst, cycleDelay, late,
                  pulses, bootVars, obsVars >>

\* main.py: one iteration of the loop of run(), lines 226-230
MainSend ==
  /\ pc = "eq_ntp"
  /\ pulses' = IF t.minute = 15 \/ t.minute = 45
               THEN sendTimecode2(pulses, t)
               ELSE sendTimecode1(pulses, t)
  /\ pc' = "eq_done"
  /\ UNCHANGED << now, base, secToRun, ticksTimeout, entrySec, ret, t, vector,
                  pos, pulseWidth, ctrl, riseAt, riseSym, nSent, iter, markSec,
                  originSec, loopEntrySec, frameMissed, worst, cycleDelay, late,
                  heap, selfVector, calls, bootVars, obsVars >>

NextEq ==
  \/ TxEncode
  \/ NtpEncode
  \/ MainSend

SpecEq == InitEq /\ [][NextEq]_vars

\* C23: for every time tuple the list returned by genTimecode of
\* pico_jjy_tx.py, the list returned by __genTimecode of pico_ntp2jjy.py and
\* the sequence of the values main.py passes to __sendPulse for one frame
\* are the same sequence of 60 symbols.
C23_SameSequence ==
  /\ pc \in {"eq_ntp", "eq_done"} => heap[selfVector] = vector
  /\ pc = "eq_done" => /\ pulses = vector
                       /\ pulses = heap[selfVector]
                       /\ Len(pulses) = 60

C23_Witness ==
  /\ pc = "eq_done" /\ t = TimeTuple(2089, 366, 5, 23, 59, 0)
  /\ pulses = vector /\ heap[selfVector] = vector
  /\ At(pulses, 36) = 1 /\ At(pulses, 37) = 0 /\ At(pulses, 59) = 2

\* a further case of C23: a CallSign frame
C23_CallSign ==
  /\ pc = "eq_done" /\ t.minute = 45 /\ t.hour = 7
  /\ pulses = vector /\ IsCallSignLayout(pulses)
====
